---- MODULE Spec2Model ----
(***************************************************************************)
(* Model of the Yukon module classes DualMotorModule (dual_motor.py) and   *)
(* QuadServoRegModule (quad_servo_reg.py): the current-limit selection of  *)
(* the dual-motor driver and the monitor/aggregator state machine of both  *)
(* modules.                                                                *)
(*                                                                         *)
(* One module object is modelled; `module` says which class it is.         *)
(* Amperes are counted in milliamps (0.161 A = 161) and temperatures in    *)
(* whole degrees, so that the comparisons of the code are integer          *)
(* comparisons.  The running sum / average is an exact fraction <<n, d>>.  *)
(* float('-inf') and float('inf') are the values NegInf and PosInf, below  *)
(* and above every temperature the sensor input can take.                  *)
(***************************************************************************)
EXTENDS Integers, Sequences, FiniteSets, TLC

(***************************************************************************)
(* Bounds of the model.                                                    *)
(***************************************************************************)
\* completed (aggregated) monitor cycles per reporting interval
MaxSamples == 3

(***************************************************************************)
(* Program constants.                                                      *)
(***************************************************************************)
CURRENT_LIMIT_1 == 161
CURRENT_LIMIT_2 == 251
CURRENT_LIMIT_3 == 444
CURRENT_LIMIT_4 == 786
CURRENT_LIMIT_5 == 1143
CURRENT_LIMIT_6 == 1611
CURRENT_LIMIT_7 == 1890
CURRENT_LIMIT_8 == 2153
CURRENT_LIMIT_9 == 2236
MIN_CURRENT_LIMIT == CURRENT_LIMIT_1
DEFAULT_CURRENT_LIMIT == CURRENT_LIMIT_3
MAX_CURRENT_LIMIT == CURRENT_LIMIT_9

DM_TEMPERATURE_THRESHOLD == 70
QS_TEMPERATURE_THRESHOLD == 80

NegInf == -1000000
PosInf == 1000000

\* self.__current_limit_states: ascending limits with the pin states to achieve them,
\* iterated in the order they are written in
current_limit_states ==
    << [limit |-> CURRENT_LIMIT_1, state |-> <<0, 0>>],
       [limit |-> CURRENT_LIMIT_2, state |-> <<-1, 0>>],
       [limit |-> CURRENT_LIMIT_3, state |-> <<0, -1>>],
       [limit |-> CURRENT_LIMIT_4, state |-> <<1, 0>>],
       [limit |-> CURRENT_LIMIT_5, state |-> <<-1, -1>>],
       [limit |-> CURRENT_LIMIT_6, state |-> <<0, 1>>],
       [limit |-> CURRENT_LIMIT_7, state |-> <<1, -1>>],
       [limit |-> CURRENT_LIMIT_8, state |-> <<-1, 1>>],
       [limit |-> CURRENT_LIMIT_9, state |-> <<1, 1>>] >>

TableLimits == { current_limit_states[i].limit : i \in 1..Len(current_limit_states) }

\* self.__current_limit_states[limit]
StateOf(limit) ==
    (CHOOSE i \in 1..Len(current_limit_states) : current_limit_states[i].limit = limit)

(***************************************************************************)
(* Inputs.                                                                 *)
(***************************************************************************)
\* desired amps handed to set_current_limit: below the table, every table limit,
\* values just under and just over a limit, and above the table
AmpsInputs == {0, 160, 161, 162, 250, 251, 444, 786, 1143, 1611, 1890, 2153, 2235, 2236, 2237}

\* the current_limit argument of the constructor: below the table, the default, between limits
CtorAmps == {0, DEFAULT_CURRENT_LIMIT, 1000}

\* values read_temperature() returns: below, at and above the threshold of the class
DM_Temperatures == {25, 70, 71}
QS_Temperatures == {25, 80, 81}

(***************************************************************************)
(* Current-limit selection (DualMotorModule.set_current_limit).            *)
(***************************************************************************)
\* the loop test `if limit > amps: break`, with the comparison the wrong way round
BreakAtFlipped(limit, amps) == limit < amps

\* the loop test `if limit > amps: break`, written with >=
BreakAtGeq(limit, amps) == limit >= amps

\* `if limit > amps: break`
BreakAt(limit, amps) == limit > amps

\* the for loop over the table items, from item i on, with the entry chosen so far
RECURSIVE ScanLimits(_, _, _)
ScanLimits(i, amps, chosen) ==
    IF i > Len(current_limit_states) THEN chosen
    ELSE IF BreakAt(current_limit_states[i].limit, amps) THEN chosen
    ELSE ScanLimits(i + 1, amps, current_limit_states[i])

\* chosen_limit, chosen_state after the loop: it starts with the lowest limit
ChosenEntry(amps) ==
    ScanLimits(1, amps, current_limit_states[StateOf(MIN_CURRENT_LIMIT)])

\* a pin configuration with the two output levels exchanged
PinConfigSwapped(component) ==
    IF component = -1 THEN "IN"
    ELSE IF component = 0 THEN "OUT_HIGH"
    ELSE "OUT_LOW"

\* the configuration one component of chosen_state puts a vref pin in
PinConfig(component) ==
    IF component = -1 THEN "IN"
    ELSE IF component = 0 THEN "OUT_LOW"
    ELSE "OUT_HIGH"

(***************************************************************************)
(* Arithmetic of the readings.                                             *)
(***************************************************************************)
\* max(temperature, self.__max_temperature)
PyMax(a, b) == IF b > a THEN b ELSE a

\* min(temperature, self.__min_temperature)
PyMin(a, b) == IF b < a THEN b ELSE a

RECURSIVE Gcd(_, _)
Gcd(a, b) == IF b = 0 THEN a ELSE Gcd(b, a % b)

Abs(x) == IF x < 0 THEN 0 - x ELSE x

\* the fraction n/d in lowest terms, d > 0
Frac(n, d) ==
    LET g == Gcd(Abs(n), d) IN <<n \div g, d \div g>>

\* self.__avg_temperature += temperature
AddTemperature(avg, temperature) == Frac(avg[1] + temperature * avg[2], avg[2])

\* self.__avg_temperature /= self.__count_avg
DivideByCount(avg, count) == Frac(avg[1], avg[2] * count)

(***************************************************************************)
(* State.                                                                  *)
(***************************************************************************)
VARIABLES
    module,                  \* the class of the object: "DualMotor" or "QuadServoReg"
    initialised,             \* initialise() has stored the slot's pins in the object
    current_limit,           \* DualMotorModule.__current_limit (milliamps)
    motors_en,               \* level of the dual-motor enable pin (slot.SLOW3)
    motors_vref1,            \* configuration of slot.SLOW1
    motors_vref2,            \* configuration of slot.SLOW2
    halt_on_not_pgood,       \* QuadServoRegModule.halt_on_not_pgood
    last_pgood,              \* QuadServoRegModule.__last_pgood
    power_en,                \* level of the quad-servo power enable pin (slot.SLOW1)
    monitor_action_callback, \* "None" or "set"
    fault_triggered,         \* DualMotorModule.__fault_triggered
    power_good_throughout,   \* QuadServoRegModule.__power_good_throughout
    max_temperature,
    min_temperature,
    avg_temperature,         \* the running sum, then the average, as a fraction <<n, d>>
    count_avg,
    call,                    \* the last call made on the object and what it did
    samples,                 \* history: temperatures aggregated since the last clear_readings()
    interval,                \* history: "collecting" since the last clear_readings(), "processed" once
                             \* process_readings() was called after a completed cycle, "mixed" once a
                             \* cycle completed after that
    bad_observed,            \* history: a cycle since the last clear_readings() read fault / not power-good
    prev_observed,           \* history: power-good read by the latest monitor() cycle, "none" before any
    limit_set                \* history: a set_current_limit() of the object, direct or in reset(), succeeded

config == <<current_limit, motors_en, motors_vref1, motors_vref2, power_en>>
readings == <<fault_triggered, power_good_throughout, max_temperature, min_temperature,
              avg_temperature, count_avg>>
history == <<samples, interval, bad_observed, prev_observed>>
fixed == <<module, halt_on_not_pgood>>
vars == <<fixed, initialised, config, last_pgood, monitor_action_callback, readings, call, history,
          limit_set>>

\* what a call leaves behind for the caller to see: the exception it raised, the
\* condition and temperature monitor() read, the warnings it logged, the arguments
\* of the callback invocations it made, and the mapping get_readings() returned
Call(op, amps, raised, obs, warnings, callbacks, returned) ==
    [op |-> op, amps |-> amps, raised |-> raised, obs |-> obs,
     warnings |-> warnings, callbacks |-> callbacks, returned |-> returned]

\* a call with no argument that neither raises nor logs a warning
Plain(op) == Call(op, 0, "None", <<>>, <<>>, <<>>, <<>>)

(***************************************************************************)
(* Construction.                                                           *)
(***************************************************************************)
\* what the base class constructor leaves: the readings as clear_readings() of the
\* class sets them (the flag of the other class stays at its neutral value and is
\* never used), and no monitor callback
BaseConstructed ==
    /\ monitor_action_callback = "None"
    /\ fault_triggered = FALSE
    /\ power_good_throughout = TRUE
    /\ max_temperature = NegInf
    /\ min_temperature = PosInf
    /\ avg_temperature = <<0, 1>>
    /\ count_avg = 0

\* DualMotorModule(current_limit=...) or QuadServoRegModule(halt_on_not_pgood=...);
\* the pins are not attributes of the object before initialise()
Init ==
    /\ module \in {"DualMotor", "QuadServoReg"}
    /\ initialised = FALSE
    /\ IF module = "DualMotor"
       THEN current_limit \in CtorAmps /\ halt_on_not_pgood = FALSE
       ELSE current_limit = DEFAULT_CURRENT_LIMIT /\ halt_on_not_pgood \in BOOLEAN
    /\ motors_en = "NONE"
    /\ motors_vref1 = "NONE"
    /\ motors_vref2 = "NONE"
    /\ power_en = "NONE"
    /\ last_pgood = FALSE
    /\ BaseConstructed
    /\ call = Plain("__init__")
    /\ samples = <<>>
    /\ interval = "collecting"
    /\ bad_observed = FALSE
    /\ prev_observed = "none"
    /\ limit_set = FALSE

(***************************************************************************)
(* DualMotorModule: lifecycle and current limit.                           *)
(***************************************************************************)
\* initialise(): the enable and vref pins become the slot's pins, which this
\* object has not configured yet; the enable line reads either level
DM_initialise ==
    /\ module = "DualMotor"
    /\ ~initialised
    /\ initialised' = TRUE
    /\ motors_en' \in {"LOW", "HIGH"}
    /\ motors_vref1' = "UNCONFIGURED"
    /\ motors_vref2' = "UNCONFIGURED"
    /\ call' = Plain("initialise")
    /\ UNCHANGED <<fixed, limit_set, current_limit, power_en, last_pgood, monitor_action_callback,
                   readings, history>>

\* is_enabled(), which always answers "no"
DM_is_enabled_never == FALSE

\* is_enabled()
DM_is_enabled == motors_en = "HIGH"

\* the body of set_current_limit(amps), storing the desired value instead of the chosen limit
ApplyCurrentLimitRaw(amps) ==
    LET chosen == ChosenEntry(amps) IN
    /\ motors_vref1' = PinConfig(chosen.state[1])
    /\ motors_vref2' = PinConfig(chosen.state[2])
    /\ current_limit' = amps

\* the body of set_current_limit(amps) after the enabled check
ApplyCurrentLimit(amps) ==
    LET chosen == ChosenEntry(amps) IN
    /\ motors_vref1' = PinConfig(chosen.state[1])
    /\ motors_vref2' = PinConfig(chosen.state[2])
    /\ current_limit' = chosen.limit

\* set_current_limit(amps)
DM_set_current_limit(amps) ==
    /\ module = "DualMotor"
    /\ initialised
    /\ IF DM_is_enabled
       THEN /\ call' = Call("set_current_limit", amps, "RuntimeError", <<>>, <<>>, <<>>, <<>>)
            /\ UNCHANGED <<current_limit, motors_vref1, motors_vref2>>
       ELSE /\ ApplyCurrentLimit(amps)
            /\ call' = Call("set_current_limit", amps, "None", <<>>, <<>>, <<>>, <<>>)
    /\ limit_set' = (limit_set \/ call'.raised = "None")
    /\ UNCHANGED <<fixed, initialised, motors_en, power_en, last_pgood,
                   monitor_action_callback, readings, history>>

\* reset() that leaves the enable line as it is
ResetEnableLevelKept == motors_en

\* the level reset() puts the enable line at: init(Pin.OUT, value=False)
ResetEnableLevel == "LOW"

\* reset(): the enable line is driven low, then set_current_limit(self.__current_limit),
\* whose enabled check reads the line as reset() left it
DM_reset ==
    /\ module = "DualMotor"
    /\ initialised
    /\ motors_en' = ResetEnableLevel
    /\ IF ResetEnableLevel = "HIGH"
       THEN /\ call' = Call("reset", current_limit, "RuntimeError", <<>>, <<>>, <<>>, <<>>)
            /\ UNCHANGED <<current_limit, motors_vref1, motors_vref2>>
       ELSE /\ ApplyCurrentLimit(current_limit)
            /\ call' = Call("reset", current_limit, "None", <<>>, <<>>, <<>>, <<>>)
    /\ limit_set' = (limit_set \/ call'.raised = "None")
    /\ UNCHANGED <<fixed, initialised, power_en, last_pgood, monitor_action_callback,
                   readings, history>>

\* enable()
DM_enable ==
    /\ module = "DualMotor"
    /\ initialised
    /\ motors_en' = "HIGH"
    /\ call' = Plain("enable")
    /\ UNCHANGED <<fixed, limit_set, initialised, current_limit, motors_vref1, motors_vref2, power_en,
                   last_pgood, monitor_action_callback, readings, history>>

\* disable()
DM_disable ==
    /\ module = "DualMotor"
    /\ initialised
    /\ motors_en' = "LOW"
    /\ call' = Plain("disable")
    /\ UNCHANGED <<fixed, limit_set, initialised, current_limit, motors_vref1, motors_vref2, power_en,
                   last_pgood, monitor_action_callback, readings, history>>

(***************************************************************************)
(* QuadServoRegModule: lifecycle.                                          *)
(***************************************************************************)
\* initialise(): the power enable pin becomes the slot's pin, reading either level
QS_initialise ==
    /\ module = "QuadServoReg"
    /\ ~initialised
    /\ initialised' = TRUE
    /\ power_en' \in {"LOW", "HIGH"}
    /\ call' = Plain("initialise")
    /\ UNCHANGED <<fixed, limit_set, current_limit, motors_en, motors_vref1, motors_vref2, last_pgood,
                   monitor_action_callback, readings, history>>

\* reset()
QS_reset ==
    /\ module = "QuadServoReg"
    /\ initialised
    /\ power_en' = "LOW"
    /\ call' = Plain("reset")
    /\ UNCHANGED <<fixed, limit_set, initialised, current_limit, motors_en, motors_vref1, motors_vref2,
                   last_pgood, monitor_action_callback, readings, history>>

\* enable()
QS_enable ==
    /\ module = "QuadServoReg"
    /\ initialised
    /\ power_en' = "HIGH"
    /\ call' = Plain("enable")
    /\ UNCHANGED <<fixed, limit_set, initialised, current_limit, motors_en, motors_vref1, motors_vref2,
                   last_pgood, monitor_action_callback, readings, history>>

\* disable()
QS_disable ==
    /\ module = "QuadServoReg"
    /\ initialised
    /\ power_en' = "LOW"
    /\ call' = Plain("disable")
    /\ UNCHANGED <<fixed, limit_set, initialised, current_limit, motors_en, motors_vref1, motors_vref2,
                   last_pgood, monitor_action_callback, readings, history>>

\* is_enabled()
QS_is_enabled == power_en = "HIGH"

(***************************************************************************)
(* Monitoring and readings, shared shape of both classes.                  *)
(***************************************************************************)
\* assign_monitor_action(callback_function) of the base class
AssignMonitorAction(callback) ==
    /\ monitor_action_callback' = callback
    /\ call' = Plain("assign_monitor_action")
    /\ UNCHANGED <<fixed, limit_set, initialised, config, last_pgood, readings, history>>

\* the four statements that add one temperature sample to the aggregates
Aggregate(temperature) ==
    /\ max_temperature' = PyMax(temperature, max_temperature)
    /\ min_temperature' = PyMin(temperature, min_temperature)
    /\ avg_temperature' = AddTemperature(avg_temperature, temperature)
    /\ count_avg' = count_avg + 1

\* process_readings() without the reset of the count
ProcessedKeepCount(avg, count) ==
    IF count > 0
    THEN [avg |-> DivideByCount(avg, count), count |-> count]
    ELSE [avg |-> avg, count |-> count]

\* process_readings() that sets the count to 0 and leaves the sum undivided
ProcessedNoDivide(avg, count) ==
    IF count > 0
    THEN [avg |-> avg, count |-> 0]
    ELSE [avg |-> avg, count |-> count]

\* the average and the count process_readings() leaves
Processed(avg, count) ==
    IF count > 0
    THEN [avg |-> DivideByCount(avg, count), count |-> 0]
    ELSE [avg |-> avg, count |-> count]

\* history kept beside a monitor() cycle: the sample of a cycle that completed,
\* whether the cycle read a bad condition, and (quad servo) the power-good it read.
\* A cycle completes only while fewer than MaxSamples samples are in the interval.
MonitorHistory(bad, temperature) ==
    /\ call'.raised = "None" => Len(samples) < MaxSamples
    /\ samples' = IF call'.raised = "None" THEN Append(samples, temperature) ELSE samples
    /\ bad_observed' = (bad_observed \/ bad)
    /\ prev_observed' = IF module = "QuadServoReg"
                        THEN (IF bad THEN "bad" ELSE "good")
                        ELSE prev_observed
    /\ interval' = IF call'.raised = "None" /\ interval = "processed" THEN "mixed" ELSE interval

(***************************************************************************)
(* DualMotorModule: monitor and readings.                                  *)
(***************************************************************************)
\* monitor() with the temperature test written >=
DM_monitor_body_geq(fault, temperature, callback_raises) ==
    IF fault
    THEN /\ call' = Call("monitor", 0, "FaultError", <<fault>>, <<>>, <<>>, <<>>)
         /\ UNCHANGED readings
    ELSE IF temperature >= DM_TEMPERATURE_THRESHOLD
    THEN /\ call' = Call("monitor", 0, "OverTemperatureError", <<fault, temperature>>,
                         <<>>, <<>>, <<>>)
         /\ UNCHANGED readings
    ELSE IF monitor_action_callback # "None" /\ callback_raises
    THEN /\ call' = Call("monitor", 0, "CallbackError", <<fault, temperature>>, <<>>,
                         << <<fault, temperature>> >>, <<>>)
         /\ UNCHANGED readings
    ELSE /\ call' = Call("monitor", 0, "None", <<fault, temperature>>, <<>>,
                         IF monitor_action_callback # "None"
                         THEN << <<fault, temperature>> >> ELSE <<>>, <<>>)
         /\ fault_triggered' = (fault_triggered \/ fault)
         /\ Aggregate(temperature)
         /\ UNCHANGED power_good_throughout

\* monitor() that adds the sample to the aggregates before the temperature test
DM_monitor_body_aggregate_first(fault, temperature, callback_raises) ==
    IF fault
    THEN /\ call' = Call("monitor", 0, "FaultError", <<fault>>, <<>>, <<>>, <<>>)
         /\ UNCHANGED readings
    ELSE IF temperature > DM_TEMPERATURE_THRESHOLD
    THEN /\ call' = Call("monitor", 0, "OverTemperatureError", <<fault, temperature>>,
                         <<>>, <<>>, <<>>)
         /\ fault_triggered' = (fault_triggered \/ fault)
         /\ Aggregate(temperature)
         /\ UNCHANGED power_good_throughout
    ELSE IF monitor_action_callback # "None" /\ callback_raises
    THEN /\ call' = Call("monitor", 0, "CallbackError", <<fault, temperature>>, <<>>,
                         << <<fault, temperature>> >>, <<>>)
         /\ UNCHANGED readings
    ELSE /\ call' = Call("monitor", 0, "None", <<fault, temperature>>, <<>>,
                         IF monitor_action_callback # "None"
                         THEN << <<fault, temperature>> >> ELSE <<>>, <<>>)
         /\ fault_triggered' = (fault_triggered \/ fault)
         /\ Aggregate(temperature)
         /\ UNCHANGED power_good_throughout

\* monitor() with the callback invoked after the sample was added to the aggregates
DM_monitor_body_callback_last(fault, temperature, callback_raises) ==
    IF fault
    THEN /\ call' = Call("monitor", 0, "FaultError", <<fault>>, <<>>, <<>>, <<>>)
         /\ UNCHANGED readings
    ELSE IF temperature > DM_TEMPERATURE_THRESHOLD
    THEN /\ call' = Call("monitor", 0, "OverTemperatureError", <<fault, temperature>>,
                         <<>>, <<>>, <<>>)
         /\ UNCHANGED readings
    ELSE /\ call' = Call("monitor", 0,
                         IF monitor_action_callback # "None" /\ callback_raises
                         THEN "CallbackError" ELSE "None",
                         <<fault, temperature>>, <<>>,
                         IF monitor_action_callback # "None"
                         THEN << <<fault, temperature>> >> ELSE <<>>, <<>>)
         /\ fault_triggered' = (fault_triggered \/ fault)
         /\ Aggregate(temperature)
         /\ UNCHANGED power_good_throughout

\* monitor() reading `fault` and `temperature`, with a callback that raises or returns
DM_monitor_body(fault, temperature, callback_raises) ==
    IF fault
    THEN /\ call' = Call("monitor", 0, "FaultError", <<fault>>, <<>>, <<>>, <<>>)
         /\ UNCHANGED readings
    ELSE IF temperature > DM_TEMPERATURE_THRESHOLD
    THEN /\ call' = Call("monitor", 0, "OverTemperatureError", <<fault, temperature>>,
                         <<>>, <<>>, <<>>)
         /\ UNCHANGED readings
    ELSE IF monitor_action_callback # "None" /\ callback_raises
    THEN /\ call' = Call("monitor", 0, "CallbackError", <<fault, temperature>>, <<>>,
                         << <<fault, temperature>> >>, <<>>)
         /\ UNCHANGED readings
    ELSE /\ call' = Call("monitor", 0, "None", <<fault, temperature>>, <<>>,
                         IF monitor_action_callback # "None"
                         THEN << <<fault, temperature>> >> ELSE <<>>, <<>>)
         /\ fault_triggered' = (fault_triggered \/ fault)
         /\ Aggregate(temperature)
         /\ UNCHANGED power_good_throughout

\* monitor() that drives the enable line low when it raises
DM_monitor_disables(fault, temperature, callback_raises) ==
    /\ module = "DualMotor"
    /\ initialised
    /\ DM_monitor_body(fault, temperature, callback_raises)
    /\ MonitorHistory(fault, temperature)
    /\ motors_en' = IF call'.raised = "None" THEN motors_en ELSE "LOW"
    /\ UNCHANGED <<fixed, limit_set, initialised, current_limit, motors_vref1, motors_vref2,
                   power_en, last_pgood, monitor_action_callback>>

\* monitor(), one call
DM_monitor(fault, temperature, callback_raises) ==
    /\ module = "DualMotor"
    /\ initialised
    /\ DM_monitor_body(fault, temperature, callback_raises)
    /\ MonitorHistory(fault, temperature)
    /\ UNCHANGED <<fixed, limit_set, initialised, config, last_pgood, monitor_action_callback>>

\* get_readings()
DM_get_readings ==
    /\ module = "DualMotor"
    /\ call' = Call("get_readings", 0, "None", <<>>, <<>>, <<>>,
                    [Fault |-> fault_triggered, T_max |-> max_temperature,
                     T_min |-> min_temperature, T_avg |-> avg_temperature])
    /\ UNCHANGED <<fixed, limit_set, initialised, config, last_pgood, monitor_action_callback,
                   readings, history>>

\* process_readings()
DM_process_readings ==
    /\ module = "DualMotor"
    /\ avg_temperature' = Processed(avg_temperature, count_avg).avg
    /\ count_avg' = Processed(avg_temperature, count_avg).count
    /\ interval' = IF interval = "collecting" /\ samples # <<>> THEN "processed" ELSE interval
    /\ call' = Plain("process_readings")
    /\ UNCHANGED <<fixed, limit_set, initialised, config, last_pgood, monitor_action_callback,
                   fault_triggered, power_good_throughout, max_temperature, min_temperature,
                   samples, bad_observed, prev_observed>>

\* clear_readings()
DM_clear_readings ==
    /\ module = "DualMotor"
    /\ fault_triggered' = FALSE
    /\ max_temperature' = NegInf
    /\ min_temperature' = PosInf
    /\ avg_temperature' = <<0, 1>>
    /\ count_avg' = 0
    /\ samples' = <<>>
    /\ interval' = "collecting"
    /\ bad_observed' = FALSE
    /\ call' = Plain("clear_readings")
    /\ UNCHANGED <<fixed, limit_set, initialised, config, last_pgood, monitor_action_callback,
                   power_good_throughout, prev_observed>>

(***************************************************************************)
(* QuadServoRegModule: monitor and readings.                               *)
(***************************************************************************)
\* the warning the two edge tests log, if any
EdgeWarnings(pgood) ==
    IF last_pgood /\ ~pgood THEN <<"Power is not good">>
    ELSE IF ~last_pgood /\ pgood THEN <<"Power is good">>
    ELSE <<>>

\* monitor() that raises on power not good whatever halt_on_not_pgood is
QS_monitor_body_always_halts(pgood, temperature, callback_raises) ==
    IF ~pgood
    THEN /\ call' = Call("monitor", 0, "FaultError", <<pgood>>, <<>>, <<>>, <<>>)
         /\ UNCHANGED <<readings, last_pgood>>
    ELSE IF temperature > QS_TEMPERATURE_THRESHOLD
    THEN /\ call' = Call("monitor", 0, "OverTemperatureError", <<pgood, temperature>>,
                         <<>>, <<>>, <<>>)
         /\ UNCHANGED <<readings, last_pgood>>
    ELSE IF monitor_action_callback # "None" /\ callback_raises
    THEN /\ call' = Call("monitor", 0, "CallbackError", <<pgood, temperature>>,
                         EdgeWarnings(pgood), << <<pgood, temperature>> >>, <<>>)
         /\ UNCHANGED <<readings, last_pgood>>
    ELSE /\ call' = Call("monitor", 0, "None", <<pgood, temperature>>, EdgeWarnings(pgood),
                         IF monitor_action_callback # "None"
                         THEN << <<pgood, temperature>> >> ELSE <<>>, <<>>)
         /\ last_pgood' = pgood
         /\ power_good_throughout' = (power_good_throughout /\ pgood)
         /\ Aggregate(temperature)
         /\ UNCHANGED fault_triggered

\* monitor() reading `pgood` and `temperature`, with a callback that raises or returns
QS_monitor_body(pgood, temperature, callback_raises) ==
    IF ~pgood /\ halt_on_not_pgood
    THEN /\ call' = Call("monitor", 0, "FaultError", <<pgood>>, <<>>, <<>>, <<>>)
         /\ UNCHANGED <<readings, last_pgood>>
    ELSE IF temperature > QS_TEMPERATURE_THRESHOLD
    THEN /\ call' = Call("monitor", 0, "OverTemperatureError", <<pgood, temperature>>,
                         <<>>, <<>>, <<>>)
         /\ UNCHANGED <<readings, last_pgood>>
    ELSE IF monitor_action_callback # "None" /\ callback_raises
    THEN /\ call' = Call("monitor", 0, "CallbackError", <<pgood, temperature>>,
                         EdgeWarnings(pgood), << <<pgood, temperature>> >>, <<>>)
         /\ UNCHANGED <<readings, last_pgood>>
    ELSE /\ call' = Call("monitor", 0, "None", <<pgood, temperature>>, EdgeWarnings(pgood),
                         IF monitor_action_callback # "None"
                         THEN << <<pgood, temperature>> >> ELSE <<>>, <<>>)
         /\ last_pgood' = pgood
         /\ power_good_throughout' = (power_good_throughout /\ pgood)
         /\ Aggregate(temperature)
         /\ UNCHANGED fault_triggered

QS_monitor(pgood, temperature, callback_raises) ==
    /\ module = "QuadServoReg"
    /\ initialised
    /\ QS_monitor_body(pgood, temperature, callback_raises)
    /\ MonitorHistory(~pgood, temperature)
    /\ UNCHANGED <<fixed, limit_set, initialised, config, monitor_action_callback>>

\* get_readings()
QS_get_readings ==
    /\ module = "QuadServoReg"
    /\ call' = Call("get_readings", 0, "None", <<>>, <<>>, <<>>,
                    [PGood |-> power_good_throughout, T_max |-> max_temperature,
                     T_min |-> min_temperature, T_avg |-> avg_temperature])
    /\ UNCHANGED <<fixed, limit_set, initialised, config, last_pgood, monitor_action_callback,
                   readings, history>>

\* process_readings()
QS_process_readings ==
    /\ module = "QuadServoReg"
    /\ avg_temperature' = Processed(avg_temperature, count_avg).avg
    /\ count_avg' = Processed(avg_temperature, count_avg).count
    /\ interval' = IF interval = "collecting" /\ samples # <<>> THEN "processed" ELSE interval
    /\ call' = Plain("process_readings")
    /\ UNCHANGED <<fixed, limit_set, initialised, config, last_pgood, monitor_action_callback,
                   fault_triggered, power_good_throughout, max_temperature, min_temperature,
                   samples, bad_observed, prev_observed>>

\* clear_readings() that leaves the sum of the temperatures as it is
QS_clear_readings_keeps_sum ==
    /\ module = "QuadServoReg"
    /\ power_good_throughout' = TRUE
    /\ max_temperature' = NegInf
    /\ min_temperature' = PosInf
    /\ count_avg' = 0
    /\ samples' = <<>>
    /\ interval' = "collecting"
    /\ bad_observed' = FALSE
    /\ call' = Plain("clear_readings")
    /\ UNCHANGED <<fixed, limit_set, initialised, config, last_pgood, monitor_action_callback,
                   fault_triggered, prev_observed, avg_temperature>>

\* clear_readings()
QS_clear_readings ==
    /\ module = "QuadServoReg"
    /\ power_good_throughout' = TRUE
    /\ max_temperature' = NegInf
    /\ min_temperature' = PosInf
    /\ avg_temperature' = <<0, 1>>
    /\ count_avg' = 0
    /\ samples' = <<>>
    /\ interval' = "collecting"
    /\ bad_observed' = FALSE
    /\ call' = Plain("clear_readings")
    /\ UNCHANGED <<fixed, limit_set, initialised, config, last_pgood, monitor_action_callback,
                   fault_triggered, prev_observed>>

(***************************************************************************)
(* The calls a user of the object can make, in any order.                  *)
(***************************************************************************)
Next ==
    \/ DM_initialise
    \/ DM_reset
    \/ DM_enable
    \/ DM_disable
    \/ \E amps \in AmpsInputs : DM_set_current_limit(amps)
    \/ \E fault \in BOOLEAN, temperature \in DM_Temperatures, callback_raises \in BOOLEAN :
          DM_monitor(fault, temperature, callback_raises)
    \/ DM_get_readings
    \/ DM_process_readings
    \/ DM_clear_readings
    \/ QS_initialise
    \/ QS_reset
    \/ QS_enable
    \/ QS_disable
    \/ \E pgood \in BOOLEAN, temperature \in QS_Temperatures, callback_raises \in BOOLEAN :
          QS_monitor(pgood, temperature, callback_raises)
    \/ QS_get_readings
    \/ QS_process_readings
    \/ QS_clear_readings
    \/ \E callback \in {"None", "set"} : AssignMonitorAction(callback)

Spec == Init /\ [][Next]_vars

(***************************************************************************)
(* Properties of the current-limit selection.                              *)
(***************************************************************************)
\* the greatest table limit not above amps, the minimum limit when there is none
GreatestLimitNotAbove(amps) ==
    LET below == { l \in TableLimits : l <= amps } IN
    IF below = {} THEN MIN_CURRENT_LIMIT
    ELSE CHOOSE l \in below : \A m \in below : m <= l

SetSucceeded == call.op = "set_current_limit" /\ call.raised = "None"

\* C1: a successful set_current_limit(a) selects the greatest table limit <= a, or
\* the minimum limit when no table limit is <= a: an a below the first entry gives
\* the minimum, an a at or above the last entry gives the maximum, and an a equal
\* to a table entry gives that entry.
C1_SelectsGreatestNotAbove ==
    SetSucceeded =>
        /\ current_limit = GreatestLimitNotAbove(call.amps)
        /\ call.amps < CURRENT_LIMIT_1 => current_limit = MIN_CURRENT_LIMIT
        /\ call.amps >= CURRENT_LIMIT_9 => current_limit = MAX_CURRENT_LIMIT
        /\ call.amps \in TableLimits => current_limit = call.amps

\* a call with a desired value equal to an inner table entry, which was selected
C1_Witness ==
    /\ SetSucceeded
    /\ call.amps = CURRENT_LIMIT_5
    /\ current_limit = CURRENT_LIMIT_5
    /\ motors_vref1 = "IN"
    /\ motors_vref2 = "IN"

\* C2: the selection is monotone. The limit a successful set_current_limit(a) stored
\* is <= the limit selected for every b >= a and >= the limit selected for every
\* b <= a, and of two successful calls made one after the other the one with the
\* larger desired value stores the larger (or the same) limit.
C2_Monotone ==
    /\ [](SetSucceeded =>
            \A b \in AmpsInputs :
                /\ call.amps <= b => current_limit <= ChosenEntry(b).limit
                /\ b <= call.amps => ChosenEntry(b).limit <= current_limit)
    /\ [][(SetSucceeded /\ SetSucceeded') =>
            /\ call.amps <= call'.amps => current_limit <= current_limit'
            /\ call'.amps <= call.amps => current_limit' <= current_limit]_vars

\* a call whose desired value lies strictly between two limits: a smaller desired
\* value selects a smaller limit and a larger one a larger limit
C2_Witness ==
    /\ SetSucceeded
    /\ call.amps = 250
    /\ current_limit = CURRENT_LIMIT_1
    /\ ChosenEntry(251).limit > current_limit
    /\ ChosenEntry(0).limit = current_limit

\* C3: set_current_limit called while the enable pin is high raises RuntimeError and
\* leaves the stored limit and both vref pins as they were; called while the enable
\* pin is low it does not raise, whatever the desired value.
C3_RejectedWhileEnabled ==
    [][call'.op = "set_current_limit" =>
        IF motors_en = "HIGH"
        THEN /\ call'.raised = "RuntimeError"
             /\ UNCHANGED <<current_limit, motors_vref1, motors_vref2>>
        ELSE call'.raised = "None"]_vars

\* a rejected call that asked for another limit than the stored one
C3_Witness ==
    /\ call.op = "set_current_limit"
    /\ call.raised = "RuntimeError"
    /\ motors_en = "HIGH"
    /\ call.amps = MAX_CURRENT_LIMIT
    /\ current_limit = CURRENT_LIMIT_3
    /\ motors_vref1 = "OUT_LOW"
    /\ motors_vref2 = "IN"

(***************************************************************************)
(* Properties of the monitor / aggregator.                                 *)
(***************************************************************************)
RECURSIVE SeqSum(_)
SeqSum(seq) == IF seq = <<>> THEN 0 ELSE seq[1] + SeqSum(Tail(seq))

SeqRange(seq) == { seq[i] : i \in 1..Len(seq) }

SeqMax(seq) == CHOOSE x \in SeqRange(seq) : \A y \in SeqRange(seq) : y <= x

SeqMin(seq) == CHOOSE x \in SeqRange(seq) : \A y \in SeqRange(seq) : x <= y

\* C4: from clear_readings(), after N >= 1 monitor() calls that completed with
\* temperatures t1..tN, process_readings() leaves T_avg = (t1+...+tN)/N,
\* T_max = max(ti) and T_min = min(ti), and get_readings() reports them, in both
\* classes (until a further cycle completes in the interval).
C4_ProcessedStatistics ==
    interval = "processed" =>
        /\ samples # <<>>
        /\ avg_temperature = Frac(SeqSum(samples), Len(samples))
        /\ max_temperature = SeqMax(samples)
        /\ min_temperature = SeqMin(samples)
        /\ call.op = "get_readings" =>
              /\ call.returned.T_avg = Frac(SeqSum(samples), Len(samples))
              /\ call.returned.T_max = SeqMax(samples)
              /\ call.returned.T_min = SeqMin(samples)

\* get_readings() after three cycles with two different temperatures were processed:
\* the average is (25 + 80 + 80) / 3
C4_Witness ==
    /\ module = "QuadServoReg"
    /\ interval = "processed"
    /\ call.op = "get_readings"
    /\ samples = <<25, 80, 80>>
    /\ call.returned.T_avg = <<185, 3>>
    /\ call.returned.T_max = 80
    /\ call.returned.T_min = 25

\* C5: in the dual-motor class, once a monitor() cycle of the interval read
\* fault = true, "Fault" is true in the readings until the next clear_readings(),
\* also when the FaultError of that cycle was caught.
C5_FaultLatched ==
    (module = "DualMotor" /\ bad_observed) =>
        /\ fault_triggered
        /\ call.op = "get_readings" => call.returned.Fault

\* C6: in the quad-servo class, "PGood" is true in the readings exactly when every
\* monitor() cycle since the last clear_readings() read power-good = true, for both
\* settings of halt_on_not_pgood and also for cycles that raise.
C6_PGoodIffAllGood ==
    module = "QuadServoReg" =>
        /\ power_good_throughout <=> ~bad_observed
        /\ call.op = "get_readings" => (call.returned.PGood <=> ~bad_observed)

\* C7: in the quad-servo class a monitor() cycle logs the edge warning exactly once
\* when the power-good it reads differs from the one the previous cycle read, and
\* does not log it when the two are equal, whether or not cycles raise.
C7_EdgeWarningPerChange ==
    [][(module = "QuadServoReg" /\ call'.op = "monitor" /\ prev_observed # "none") =>
          Len(call'.warnings) = (IF prev_observed' # prev_observed THEN 1 ELSE 0)]_vars

\* C8: once process_readings() has finalized the average in an interval, every
\* further process_readings() before the next clear_readings() leaves T_avg and the
\* sample count as they were, whatever monitor() calls came in between.
C8_ProcessedOncePerInterval ==
    [][(interval # "collecting" /\ call'.op = "process_readings") =>
          /\ avg_temperature' = avg_temperature
          /\ count_avg' = count_avg]_vars

\* C9: process_readings() leaves the sample count at 0, changes nothing when the
\* count is 0 already, and changes nothing when it directly follows another
\* process_readings().
C9_ProcessIdempotent ==
    [][call'.op = "process_readings" =>
          /\ count_avg' = 0
          /\ count_avg = 0 => UNCHANGED readings
          /\ call.op = "process_readings" => UNCHANGED readings]_vars

\* process_readings() left an average that a second division would change
C9_Witness ==
    /\ call.op = "process_readings"
    /\ count_avg = 0
    /\ samples = <<25, 70>>
    /\ avg_temperature = <<95, 2>>

\* C10: with a callback set, a monitor() call invokes it exactly once, with the
\* condition and temperature it read, unless it raises FaultError or
\* OverTemperatureError, and then not at all; a cycle whose callback raises leaves
\* the aggregates without that cycle's sample.
C10_CallbackOncePerCycle ==
    /\ []((call.op = "monitor" /\ monitor_action_callback # "None") =>
            IF call.raised \in {"FaultError", "OverTemperatureError"}
            THEN call.callbacks = <<>>
            ELSE call.callbacks = <<call.obs>>)
    /\ [][(call'.op = "monitor" /\ call'.raised = "CallbackError") =>
            UNCHANGED <<readings, last_pgood>>]_vars

\* a cycle whose callback raised, after an earlier cycle had been aggregated
C10_Witness ==
    /\ module = "DualMotor"
    /\ call.op = "monitor"
    /\ call.raised = "CallbackError"
    /\ call.callbacks = << <<FALSE, 70>> >>
    /\ samples = <<25>>
    /\ max_temperature = 25
    /\ count_avg = 1

(***************************************************************************)
(* Properties of the stored current limit and of the lifecycle.            *)
(***************************************************************************)
\* C11 as stated: in every state of a DualMotorModule, from construction on, the
\* limit current_limit() returns is one of the nine table values.
C11_AlwaysTableValue ==
    module = "DualMotor" => current_limit \in TableLimits

\* C11, amended: once a set_current_limit() has succeeded, directly or in reset(),
\* current_limit() returns one of the nine table values (before that it returns the
\* constructor argument as given), and no operation other than set_current_limit
\* and reset changes it.
C11_TableValueOnceSet ==
    /\ []((module = "DualMotor" /\ limit_set) => current_limit \in TableLimits)
    /\ [][current_limit' # current_limit => call'.op \in {"set_current_limit", "reset"}]_vars

\* the first reset() of an object built with a current limit between two table values
C11_Witness ==
    /\ call.op = "reset"
    /\ call.amps = 1000
    /\ limit_set
    /\ current_limit = CURRENT_LIMIT_4

(***************************************************************************)
(* Properties of the readings, continued.                                  *)
(***************************************************************************)
\* the mapping get_readings() returns at the start of an interval
NeutralReadings ==
    IF module = "DualMotor"
    THEN [Fault |-> FALSE, T_max |-> NegInf, T_min |-> PosInf, T_avg |-> <<0, 1>>]
    ELSE [PGood |-> TRUE, T_max |-> NegInf, T_min |-> PosInf, T_avg |-> <<0, 1>>]

\* C12: after clear_readings(), with or without a process_readings() after it, and
\* as long as no monitor() cycle has completed, the readings are the neutral
\* defaults (Fault false or PGood true, T_max = -inf, T_min = +inf, T_avg = 0) and
\* get_readings() returns them.
C12_NeutralAfterClear ==
    (samples = <<>> /\ interval = "collecting") =>
        /\ IF module = "DualMotor" THEN ~fault_triggered ELSE power_good_throughout
        /\ max_temperature = NegInf
        /\ min_temperature = PosInf
        /\ avg_temperature = <<0, 1>>
        /\ count_avg = 0
        /\ call.op = "get_readings" => call.returned = NeutralReadings

\* get_readings() in an interval without a completed cycle, on an object that had
\* completed a cycle reading power-good before the clear_readings()
C12_Witness ==
    /\ module = "QuadServoReg"
    /\ last_pgood
    /\ samples = <<>>
    /\ call.op = "get_readings"
    /\ call.returned = [PGood |-> TRUE, T_max |-> NegInf, T_min |-> PosInf, T_avg |-> <<0, 1>>]

(***************************************************************************)
(* Properties of the errors monitor() raises.                              *)
(***************************************************************************)
\* C13: DualMotorModule.monitor() raises FaultError exactly when it reads the fault
\* line asserted, whatever the temperature is; when the fault line is not asserted
\* it raises OverTemperatureError exactly when the temperature it reads is strictly
\* above the threshold, so a temperature equal to the threshold does not raise.
C13_FaultThenTemperature ==
    (module = "DualMotor" /\ call.op = "monitor") =>
        /\ call.raised = "FaultError" <=> call.obs[1]
        /\ ~call.obs[1] =>
              /\ call.raised = "OverTemperatureError" <=> call.obs[2] > DM_TEMPERATURE_THRESHOLD
              /\ call.obs[2] = DM_TEMPERATURE_THRESHOLD => call.raised # "OverTemperatureError"

\* a cycle at exactly the threshold, which completed and was aggregated
C13_Witness ==
    /\ module = "DualMotor"
    /\ call.op = "monitor"
    /\ call.obs = <<FALSE, DM_TEMPERATURE_THRESHOLD>>
    /\ call.raised = "None"
    /\ max_temperature = DM_TEMPERATURE_THRESHOLD

\* C14: a monitor() cycle that raises FaultError or OverTemperatureError leaves the
\* whole aggregator state as it was (flag, T_max, T_min, sum, count and, in the
\* quad-servo class, the last power-good condition); in the dual-motor class a cycle
\* that reads a fault raises with the Fault flag not set.
C14_RaisingCycleChangesNothing ==
    /\ []((module = "DualMotor" /\ call.op = "monitor" /\ call.obs[1]) =>
            (call.raised = "FaultError" /\ ~fault_triggered))
    /\ [][(call'.op = "monitor" /\ call'.raised \in {"FaultError", "OverTemperatureError"}) =>
            UNCHANGED <<readings, last_pgood>>]_vars

\* an over-temperature cycle that read power not good, after a cycle that was
\* aggregated with power good: nothing of it is in the readings
C14_Witness ==
    /\ module = "QuadServoReg"
    /\ call.op = "monitor"
    /\ call.raised = "OverTemperatureError"
    /\ call.obs = <<FALSE, 81>>
    /\ samples = <<25>>
    /\ last_pgood
    /\ power_good_throughout
    /\ max_temperature = 25
    /\ count_avg = 1

\* what a completed cycle at `temperature` makes of T_max, T_min, sum and count
SampleAdded(temperature) ==
    /\ max_temperature' = (IF temperature > max_temperature THEN temperature ELSE max_temperature)
    /\ min_temperature' = (IF temperature < min_temperature THEN temperature ELSE min_temperature)
    /\ avg_temperature' = Frac(avg_temperature[1] + temperature * avg_temperature[2],
                               avg_temperature[2])
    /\ count_avg' = count_avg + 1

TablePair(limit) == current_limit_states[StateOf(limit)].state

\* the configuration a pin-state component stands for
VrefFor(component) ==
    CASE component = -1 -> "IN"
      [] component = 0 -> "OUT_LOW"
      [] component = 1 -> "OUT_HIGH"

\* C16: once a set_current_limit (direct or made by reset) has succeeded, in every
\* later state, whatever calls follow, the two vref pins are configured as the
\* table's pin-state pair for the stored limit: -1 input, 0 driven low, 1 driven high.
C16_VrefMatchesStoredLimit ==
    (module = "DualMotor" /\ limit_set) =>
        /\ current_limit \in TableLimits
        /\ motors_vref1 = VrefFor(TablePair(current_limit)[1])
        /\ motors_vref2 = VrefFor(TablePair(current_limit)[2])

\* a set_current_limit rejected while enabled, after CURRENT_LIMIT_8 was applied
C16_Witness ==
    /\ module = "DualMotor"
    /\ limit_set
    /\ call.op = "set_current_limit"
    /\ call.raised = "RuntimeError"
    /\ call.amps = CURRENT_LIMIT_4
    /\ current_limit = CURRENT_LIMIT_8
    /\ motors_vref1 = "IN"
    /\ motors_vref2 = "OUT_HIGH"

\* what is_enabled() of the modelled class returns
IsEnabled == IF module = "DualMotor" THEN DM_is_enabled ELSE QS_is_enabled

\* C17: monitor() leaves the enable line, and so is_enabled(), as it was, whether
\* the cycle raises or completes; on an initialised module the enable line is
\* changed only by enable(), disable() and reset().
C17_MonitorKeepsEnabledState ==
    /\ [][call'.op = "monitor" =>
            (IsEnabled' = IsEnabled /\ UNCHANGED <<motors_en, power_en>>)]_vars
    /\ [][(initialised /\ (motors_en' # motors_en \/ power_en' # power_en)) =>
            call'.op \in {"enable", "disable", "reset"}]_vars

\* an enabled dual-motor module after a cycle that raised OverTemperatureError
C17_Witness ==
    /\ module = "DualMotor"
    /\ call.op = "monitor"
    /\ call.raised = "OverTemperatureError"
    /\ call.obs = <<FALSE, 71>>
    /\ motors_en = "HIGH"
    /\ IsEnabled
    /\ limit_set
    /\ samples = <<70>>

\* C18: DualMotorModule.reset() never raises, whatever the enable line was before
\* it; afterwards the module is disabled and the stored limit is the table
\* selection for the limit stored before, which is that limit itself when it was
\* already a table value; selecting twice gives what selecting once gives.
C18_ResetNeverRejected ==
    /\ [][(module = "DualMotor" /\ call'.op = "reset") =>
            /\ call'.raised = "None"
            /\ motors_en' = "LOW"
            /\ ~DM_is_enabled'
            /\ current_limit' = GreatestLimitNotAbove(current_limit)
            /\ (current_limit \in TableLimits => current_limit' = current_limit)]_vars
    /\ [](\A amps \in AmpsInputs \cup CtorAmps :
            ChosenEntry(ChosenEntry(amps).limit).limit = ChosenEntry(amps).limit)

\* a reset with CURRENT_LIMIT_6 stored: the module is disabled and the limit kept
C18_Witness ==
    /\ module = "DualMotor"
    /\ call.op = "reset"
    /\ call.raised = "None"
    /\ call.amps = CURRENT_LIMIT_6
    /\ current_limit = CURRENT_LIMIT_6
    /\ motors_en = "LOW"
    /\ motors_vref1 = "OUT_LOW"
    /\ motors_vref2 = "OUT_HIGH"

\* the TEMPERATURE_THRESHOLD of the modelled class
ClassThreshold ==
    IF module = "DualMotor" THEN DM_TEMPERATURE_THRESHOLD ELSE QS_TEMPERATURE_THRESHOLD

\* C19: in every reachable state T_max is not above the class's temperature
\* threshold, T_min is +infinity or not above it, and when a sample has been
\* aggregated since the last clear_readings() T_min <= T_max.
C19_ExtremaWithinThreshold ==
    /\ max_temperature <= ClassThreshold
    /\ (min_temperature = PosInf \/ min_temperature <= ClassThreshold)
    /\ (samples # <<>> => min_temperature <= max_temperature)

\* three samples aggregated, the largest at the threshold, a cycle that read a
\* fault among them, then process_readings()
C19_Witness ==
    /\ module = "DualMotor"
    /\ samples = <<70, 25, 70>>
    /\ bad_observed
    /\ call.op = "process_readings"
    /\ max_temperature = DM_TEMPERATURE_THRESHOLD
    /\ min_temperature = 25

====
